---- MODULE Spec2Model ----
(***************************************************************************)
(* Model of scripts/internal/download_exes.py: the AppVeyor artifact       *)
(* downloader.  main() clears 'dist', lists the artifact URLs of every    *)
(* build job, downloads them on a thread pool, counts the downloads that  *)
(* returned, checks the count and renames the two 2.7 wheels.             *)
(***************************************************************************)
EXTENDS Integers, Sequences, FiniteSets, TLC

\* ------------------------------------------------------------------ bounds
\* How many entries of the script's version list (five, line 28) the model
\* keeps: the expected count is four files per kept version.
NumVersions == 1
\* os.cpu_count() of the host the script runs on.
Cpus == 1
\* Threads that are inside safe_makedirs('dist') at the same time, when the
\* helper is examined step by step.
NumCallers == 4
\* The longest byte count given to bytes2human, in digits of 1024: counts
\* below 1024 ^ MaxDigits.
MaxDigits == 10
\* Downloads of one run that meet a fault: a failed connection, an error
\* response, a failing open or write, a request that never returns.
MaxFaults == 1

\* --------------------------------------------------------------- constants
AllVersions == <<"2.7", "3.3", "3.4", "3.5", "3.6">>

PY_VERSIONS == SubSeq(AllVersions, 1, NumVersions)

\* File names the jobs may list, in lexicographic (byte) order of the real
\* strings 'psutil-<ver>-cp27-cp27m-win32.whl' ... 'psutil-<ver>.win32-py2.7.exe'.
SRC32 == "psutil-V-cp27-cp27m-win32.whl"
SRC64 == "psutil-V-cp27-cp27m-win_amd64.whl"
DST32 == "psutil-V-cp27-none-win32.whl"
DST64 == "psutil-V-cp27-none-win_amd64.whl"
EXE64 == "psutil-V.win-amd64-py2.7.exe"
EXE32 == "psutil-V.win32-py2.7.exe"

NameOrder == <<SRC32, SRC64, DST32, DST64, EXE64, EXE32>>

Rank(name) == CHOOSE k \in 1..Len(NameOrder) : NameOrder[k] = name

JobIds == <<"j1", "j2">>

\* Python's None, for exc and for the stderr message.
None == [kind |-> "none"]

\* The exit status of a process that has not ended.
Running == 0 - 1

Min(a, b) == IF a <= b THEN a ELSE b

\* ThreadPoolExecutor() without max_workers (line 157): the executor sizes
\* itself to min(32, cpu_count + 4) threads (cpu_count * 5 before
\* Python 3.8): more threads than the host has cpus.
DefaultMaxWorkers(cpus) == Min(32, cpus + 4)

MaxWorkers_OnePerTask == Len(NameOrder) * Len(JobIds)

\* The pool main creates on line 157.
MaxWorkers == DefaultMaxWorkers(Cpus)

\* ----------------------------------------------------------------- helpers
\* os.path.basename(url) / url.split('/')[-1]: the final path segment.
Basename(url) == url[Len(url)]

\* job_url + '/' + item['fileName'], as the sequence of path segments.
FileUrl(job, fileName) == <<"buildjobs", job, "artifacts">> \o fileName

\* What the CI service may answer: no job, the 32-bit job, or the 32-bit and
\* the 64-bit job.  Job j reports any sub-list of JobNames[j]; the second
\* job may repeat a name of the first.
JobNames == << <<SRC32, DST32, EXE32>>, <<SRC64, EXE64, EXE32>> >>

RECURSIVE SubSeqsFrom(_, _)
SubSeqsFrom(s, k) ==
    IF k > Len(s) THEN {<<>>}
    ELSE LET rest == SubSeqsFrom(s, k + 1)
         IN  rest \cup {<<s[k]>> \o r : r \in rest}

ArtifactLists(j) == SubSeqsFrom(JobNames[j], 1)

ApiAnswers ==
    UNION {{a \in [1..n -> UNION {ArtifactLists(j) : j \in 1..n}] :
              \A j \in 1..n : a[j] \in ArtifactLists(j)} : n \in 0..Len(JobNames)}

\* urls of get_file_urls before sorting: jobs in order, items in order.
RECURSIVE CollectUrls(_, _)
CollectUrls(js, j) ==
    IF j > Len(js) THEN <<>>
    ELSE [k \in 1..Len(js[j]) |-> FileUrl(JobIds[j], <<js[j][k]>>)]
         \o CollectUrls(js, j + 1)

\* A sort on the whole url: the job id is compared before the file name.
SortedPos_ByUrl(s, k) ==
    1 + Cardinality({m \in 1..Len(s) :
            \/ s[m][2] # s[k][2] /\ m < k
            \/ s[m][2] = s[k][2]
                   /\ Rank(Basename(s[m])) < Rank(Basename(s[k]))})

\* sorted(urls, key=basename): a stable sort.  Element k goes behind the
\* elements with a smaller key and the earlier elements with the same key.
SortedPos(s, k) ==
    1 + Cardinality({m \in 1..Len(s) :
            \/ Rank(Basename(s[m])) < Rank(Basename(s[k]))
            \/ Rank(Basename(s[m])) = Rank(Basename(s[k])) /\ m < k})

SortedByBasename(s) ==
    [p \in 1..Len(s) |-> s[CHOOSE k \in 1..Len(s) : SortedPos(s, k) = p]]

\* dist as the script sees it: absent, a directory holding files, or a
\* path that is not a directory.
Absent == [kind |-> "absent", files |-> {}]
Dir(fs) == [kind |-> "dir", files |-> fs]
NotDir == [kind |-> "file", files |-> {}]

\* shutil.rmtree(path, ignore_errors=True): every error is absorbed.
SafeRmtree_IgnoreErrors(d) ==
    IF d.kind = "file" THEN [raised |-> FALSE, dist |-> d]
    ELSE [raised |-> FALSE, dist |-> Absent]

\* shutil.rmtree(path, onerror=onerror): ENOENT is absorbed, any other
\* error is re-raised by onerror.
SafeRmtree(d) ==
    IF d.kind = "file" THEN [raised |-> TRUE, dist |-> d]
    ELSE [raised |-> FALSE, dist |-> Absent]

\* os.makedirs(path) with EEXIST tolerated when the path is a directory.
SafeMakedirs(d) ==
    IF d.kind = "absent" THEN [raised |-> FALSE, dist |-> Dir({})]
    ELSE IF d.kind = "dir" THEN [raised |-> FALSE, dist |-> d]
    ELSE [raised |-> TRUE, dist |-> d]

\* ------------------------------------------------------------------- state
\* pc          where main is
\* dist        the destination directory
\* api         what the CI service answers in this run (the environment)
\* jobs        the artifact lists get_file_urls has fetched so far
\* urls        the sorted urls, once get_file_urls yields
\* submitted   how many urls have been submitted to the pool
\* fstate      per future: unsubmitted, pending, writing, ok, err
\* httpErr     futures whose request got an error status
\* hung        the future whose download never returns (0: none)
\* consumed    futures as_completed has handed to the loop body
\* completed, exc   main's locals
\* printed     lines printed by the loop body
\* renames     how many os.rename calls of rename_27_wheels succeeded
\* exitStatus, exitMsg   the process's exit status and last stderr message
\* callers     threads inside a safe_makedirs('dist') call, when the helper
\*             is examined step by step: where each of them is
\* nbytes, human   an argument of bytes2human and what it returned, when
\*             the helper is examined on its own
VARIABLES pc, dist, api, jobs, urls, submitted, fstate, httpErr, hung,
          consumed, completed, exc, printed, renames, exitStatus, exitMsg,
          callers, nbytes, human

vars == <<pc, dist, api, jobs, urls, submitted, fstate, httpErr, hung,
          consumed, completed, exc, printed, renames, exitStatus, exitMsg,
          callers, nbytes, human>>

Futures == 1..Len(urls)

Busy == {i \in Futures : fstate[i] = "writing"}

Faulty ==
    {i \in Futures : fstate[i] = "err"} \cup httpErr
        \cup (IF hung = 0 THEN {} ELSE {hung})

MayFault(i) == i \in Faulty \/ Cardinality(Faulty) < MaxFaults

InitialDists == {Absent, Dir({}), Dir({"stale", SRC32}), NotDir}

Init ==
    /\ pc = "rmtree"
    /\ dist \in InitialDists
    /\ api \in ApiAnswers
    /\ jobs = <<>>
    /\ urls = <<>>
    /\ submitted = 0
    /\ fstate = <<>>
    /\ httpErr = {}
    /\ hung = 0
    /\ consumed = {}
    /\ completed = 0
    /\ exc = None
    /\ printed = {}
    /\ renames = 0
    /\ exitStatus = Running
    /\ exitMsg = None
    /\ callers = <<>>
    /\ nbytes = <<>>
    /\ human = None

\* exit(msg): print to stderr, sys.exit(1).  An uncaught exception ends the
\* interpreter with status 1 as well.
Exit(msg) ==
    /\ pc' = "exit"
    /\ exitStatus' = 1
    /\ exitMsg' = msg

\* main, line 153: safe_rmtree('dist').
ClearDist ==
    /\ pc = "rmtree"
    /\ LET r == SafeRmtree(dist)
       IN  /\ dist' = r.dist
           /\ IF r.raised
              THEN Exit([kind |-> "oserror", op |-> "rmtree"])
              ELSE /\ pc' = "list_project"
                   /\ UNCHANGED <<exitStatus, exitMsg>>
    /\ UNCHANGED <<callers, nbytes, human>>
    /\ UNCHANGED <<api, jobs, urls, submitted, fstate, httpErr, hung,
                   consumed, completed, exc, printed, renames>>

\* get_file_urls, lines 121-124: the project request, which may fail.
ListProject ==
    /\ pc = "list_project"
    /\ \/ Exit([kind |-> "neterror", op |-> "project"])
       \/ /\ pc' = "list_jobs"
          /\ UNCHANGED <<exitStatus, exitMsg>>
    /\ UNCHANGED <<callers, nbytes, human>>
    /\ UNCHANGED <<dist, api, jobs, urls, submitted, fstate, httpErr, hung,
                   consumed, completed, exc, printed, renames>>

\* get_file_urls, lines 127-133: one artifacts request per job.
ListJob ==
    /\ pc = "list_jobs"
    /\ Len(jobs) < Len(api)
    /\ \/ /\ Exit([kind |-> "neterror", op |-> "artifacts"])
          /\ UNCHANGED jobs
       \/ /\ jobs' = Append(jobs, api[Len(jobs) + 1])
          /\ UNCHANGED <<pc, exitStatus, exitMsg>>
    /\ UNCHANGED <<callers, nbytes, human>>
    /\ UNCHANGED <<dist, api, urls, submitted, fstate, httpErr, hung,
                   consumed, completed, exc, printed, renames>>

\* get_file_urls, lines 126-137: the urls of all jobs, sorted by file name.
GetFileUrls(js) == SortedByBasename(CollectUrls(js, 1))

NoArtifacts_Never(us) == FALSE

\* get_file_urls, line 134: "if not urls".
NoArtifacts(us) == us = <<>>

\* get_file_urls, lines 134-137: fatal when empty, else the urls are yielded.
YieldUrls ==
    /\ pc = "list_jobs"
    /\ Len(jobs) = Len(api)
    /\ LET us == GetFileUrls(jobs)
       IN  IF NoArtifacts(us)
           THEN /\ Exit([kind |-> "msg", text |-> "no artifacts found"])
                /\ UNCHANGED <<urls, fstate>>
           ELSE /\ urls' = us
                /\ fstate' = [i \in 1..Len(us) |-> "unsubmitted"]
                /\ pc' = "submit"
                /\ UNCHANGED <<exitStatus, exitMsg>>
    /\ UNCHANGED <<callers, nbytes, human>>
    /\ UNCHANGED <<dist, api, jobs, submitted, httpErr, hung,
                   consumed, completed, exc, printed, renames>>

\* main, line 158: e.submit(download_file, url) for the next url.
Submit ==
    /\ pc = "submit"
    /\ submitted < Len(urls)
    /\ submitted' = submitted + 1
    /\ fstate' = [fstate EXCEPT ![submitted + 1] = "pending"]
    /\ pc' = IF submitted + 1 = Len(urls) THEN "as_completed" ELSE "submit"
    /\ UNCHANGED <<callers, nbytes, human>>
    /\ UNCHANGED <<dist, api, jobs, urls, httpErr, hung, consumed,
                   completed, exc, printed, renames, exitStatus, exitMsg>>

\* download_file, lines 107-112, run by a free pool thread on the oldest
\* queued task: safe_makedirs('dist'); requests.get, which raises on a
\* failed connection but not on an error status; open(local_fname, 'wb').
Start(i) ==
    /\ i \in Futures
    /\ fstate[i] = "pending"
    /\ \A k \in Futures : fstate[k] = "pending" => i <= k
    /\ Cardinality(Busy) < MaxWorkers
    /\ LET r == SafeMakedirs(dist)
       IN  \/ /\ r.raised
              /\ fstate' = [fstate EXCEPT ![i] = "err"]
              /\ UNCHANGED <<dist, httpErr>>
           \/ /\ ~r.raised
              /\ MayFault(i)
              /\ \E outcome \in {"conn_error", "open_error"} :
                    fstate' = [fstate EXCEPT ![i] = "err"]
              /\ dist' = r.dist
              /\ UNCHANGED httpErr
           \/ /\ ~r.raised
              /\ \E status \in {"http_ok", "http_error"} :
                    /\ status = "http_error" => MayFault(i)
                    /\ httpErr' = IF status = "http_error"
                                  THEN httpErr \cup {i} ELSE httpErr
              /\ fstate' = [fstate EXCEPT ![i] = "writing"]
              /\ dist' = Dir(r.dist.files \cup {Basename(urls[i])})
    /\ UNCHANGED <<callers, nbytes, human>>
    /\ UNCHANGED <<pc, api, jobs, urls, submitted, hung, consumed,
                   completed, exc, printed, renames, exitStatus, exitMsg>>

\* A download that is fetched again when it fails.
Finish_Retry(i) ==
    /\ i \in Futures
    /\ fstate[i] = "writing"
    /\ hung # i
    /\ \/ fstate' = [fstate EXCEPT ![i] = "ok"]
       \/ /\ MayFault(i)
          /\ fstate' = [fstate EXCEPT ![i] = "pending"]
    /\ UNCHANGED <<callers, nbytes, human>>
    /\ UNCHANGED <<pc, dist, api, jobs, urls, submitted, httpErr, hung,
                   consumed, completed, exc, printed, renames, exitStatus, exitMsg>>

\* download_file, lines 113-117: the chunks are written; the body ends and
\* the function returns, or the stream or a write raises.
Finish(i) ==
    /\ i \in Futures
    /\ fstate[i] = "writing"
    /\ hung # i
    /\ \/ fstate' = [fstate EXCEPT ![i] = "ok"]
       \/ /\ MayFault(i)
          /\ fstate' = [fstate EXCEPT ![i] = "err"]
    /\ UNCHANGED <<callers, nbytes, human>>
    /\ UNCHANGED <<pc, dist, api, jobs, urls, submitted, httpErr, hung,
                   consumed, completed, exc, printed, renames, exitStatus, exitMsg>>

\* No timeout is set (line 110): a download may block forever.
Hang(i) ==
    /\ i \in Futures
    /\ fstate[i] = "writing"
    /\ hung = 0
    /\ MayFault(i)
    /\ hung' = i
    /\ UNCHANGED <<callers, nbytes, human>>
    /\ UNCHANGED <<pc, dist, api, jobs, urls, submitted, fstate, httpErr,
                   consumed, completed, exc, printed, renames, exitStatus, exitMsg>>

AsCompleted_NotFinished(i) ==
    /\ i \in Futures
    /\ i \notin consumed
    /\ fstate[i] # "unsubmitted"

AsCompleted_StopOnError(i) ==
    /\ i \in Futures
    /\ i \notin consumed
    /\ fstate[i] \in {"ok", "err"}
    /\ exc = None

AsCompleted_InOrder(i) ==
    /\ i \in Futures
    /\ i \notin consumed
    /\ fstate[i] \in {"ok", "err"}
    /\ \A k \in 1..(i - 1) : k \in consumed

\* as_completed(fut_to_url), line 159: any finished future not yet handed out.
AsCompleted(i) ==
    /\ i \in Futures
    /\ i \notin consumed
    /\ fstate[i] \in {"ok", "err"}

\* A loop body that counts the files written, not the futures that returned.
Consume_CountFiles(i) ==
    /\ pc = "as_completed"
    /\ AsCompleted(i)
    /\ consumed' = consumed \cup {i}
    /\ IF fstate[i] = "err"
       THEN /\ exc' = [url |-> urls[i]]
            /\ printed' = printed \cup {[kind |-> "error", url |-> urls[i]]}
            /\ UNCHANGED completed
       ELSE /\ completed' =
                 Cardinality({Basename(urls[k]) :
                     k \in {m \in consumed' : fstate[m] = "ok"}})
            /\ printed' = printed \cup {[kind |-> "downloaded", url |-> urls[i]]}
            /\ UNCHANGED exc
    /\ pc' = IF consumed' = Futures THEN "verify" ELSE "as_completed"
    /\ UNCHANGED <<callers, nbytes, human>>
    /\ UNCHANGED <<dist, api, jobs, urls, submitted, fstate, httpErr, hung,
                   renames, exitStatus, exitMsg>>

\* main, lines 159-169: the loop body on the future as_completed hands out.
Consume(i) ==
    /\ pc = "as_completed"
    /\ AsCompleted(i)
    /\ consumed' = consumed \cup {i}
    /\ IF fstate[i] = "err"
       THEN /\ exc' = [url |-> urls[i]]
            /\ printed' = printed \cup {[kind |-> "error", url |-> urls[i]]}
            /\ UNCHANGED completed
       ELSE /\ completed' = completed + 1
            /\ printed' = printed \cup {[kind |-> "downloaded", url |-> urls[i]]}
            /\ UNCHANGED exc
    /\ pc' = IF consumed' = Futures THEN "verify" ELSE "as_completed"
    /\ UNCHANGED <<callers, nbytes, human>>
    /\ UNCHANGED <<dist, api, jobs, urls, submitted, fstate, httpErr, hung,
                   renames, exitStatus, exitMsg>>

\* main, line 171.
expected == Len(PY_VERSIONS) * 4

Verdict_NoExc(nCompleted, lastExc) ==
    IF expected # nCompleted
    THEN [kind |-> "count", expected |-> expected, got |-> nCompleted]
    ELSE None

Verdict_OnlyFewer(nCompleted, lastExc) ==
    IF expected > nCompleted
    THEN [kind |-> "count", expected |-> expected, got |-> nCompleted]
    ELSE IF lastExc # None
         THEN [kind |-> "msg", text |-> "1"]
         ELSE None

\* main, lines 172-175: what the checks after the loop decide.
Verdict(nCompleted, lastExc) ==
    IF expected # nCompleted
    THEN [kind |-> "count", expected |-> expected, got |-> nCompleted]
    ELSE IF lastExc # None
         THEN [kind |-> "msg", text |-> "1"]
         ELSE None

Verify ==
    /\ pc = "verify"
    /\ LET v == Verdict(completed, exc)
       IN  IF v # None
           THEN Exit(v)
           ELSE /\ pc' = "rename1"
                /\ UNCHANGED <<exitStatus, exitMsg>>
    /\ UNCHANGED <<callers, nbytes, human>>
    /\ UNCHANGED <<dist, api, jobs, urls, submitted, fstate, httpErr, hung,
                   consumed, completed, exc, printed, renames>>

Rename_KeepSrc(src, dst, next) ==
    IF src \notin dist.files
    THEN /\ Exit([kind |-> "oserror", op |-> "rename"])
         /\ UNCHANGED <<dist, renames>>
    ELSE /\ dist' = Dir(dist.files \cup {dst})
         /\ renames' = renames + 1
         /\ pc' = next
         /\ exitStatus' = IF next = "done" THEN 0 ELSE exitStatus
         /\ UNCHANGED exitMsg

Rename_IgnoreMissing(src, dst, next) ==
    /\ IF src \notin dist.files
       THEN UNCHANGED <<dist, renames>>
       ELSE /\ dist' = Dir((dist.files \ {src}) \cup {dst})
            /\ renames' = renames + 1
    /\ pc' = next
    /\ exitStatus' = IF next = "done" THEN 0 ELSE exitStatus
    /\ UNCHANGED exitMsg

\* os.rename(src, dst) inside dist: raises when src is missing; an
\* existing dst is replaced on POSIX and makes the call raise on Windows.
Rename(src, dst, next) ==
    IF src \notin dist.files
    THEN /\ Exit([kind |-> "oserror", op |-> "rename"])
         /\ UNCHANGED <<dist, renames>>
    ELSE \/ /\ dist' = Dir((dist.files \ {src}) \cup {dst})
            /\ renames' = renames + 1
            /\ pc' = next
            /\ exitStatus' = IF next = "done" THEN 0 ELSE exitStatus
            /\ UNCHANGED exitMsg
         \/ /\ dst \in dist.files
            /\ Exit([kind |-> "oserror", op |-> "rename"])
            /\ UNCHANGED <<dist, renames>>

\* rename_27_wheels, lines 142-145.
Rename32 ==
    /\ pc = "rename1"
    /\ Rename(SRC32, DST32, "rename2")
    /\ UNCHANGED <<callers, nbytes, human>>
    /\ UNCHANGED <<api, jobs, urls, submitted, fstate, httpErr, hung,
                   consumed, completed, exc, printed>>

\* rename_27_wheels, lines 146-149; main returns, the process exits 0.
Rename64 ==
    /\ pc = "rename2"
    /\ Rename(SRC64, DST64, "done")
    /\ UNCHANGED <<callers, nbytes, human>>
    /\ UNCHANGED <<api, jobs, urls, submitted, fstate, httpErr, hung,
                   consumed, completed, exc, printed>>

\* The steps of main and of the pool threads.
Progress ==
    \/ ClearDist
    \/ ListProject
    \/ ListJob
    \/ YieldUrls
    \/ Submit
    \/ \E i \in Futures : Start(i)
    \/ \E i \in Futures : Finish(i)
    \/ \E i \in Futures : Consume(i)
    \/ Verify
    \/ Rename32
    \/ Rename64

Next ==
    \/ Progress
    \/ \E i \in Futures : Hang(i)

Spec == Init /\ [][Next]_vars

\* The interpreter and the pool threads keep running: while main or a
\* download that does not hang can take a step, a step is taken.
FairSpec == Spec /\ WF_vars(Progress)

\* ------------------------------------------------------------------ claims
Ended == pc \in {"done", "exit"}

Renaming == pc \in {"rename1", "rename2", "done"} \/ renames > 0

\* The loop over as_completed has ended and the checks of lines 171-175
\* have been made.
Verified == urls # <<>> /\ consumed = Futures /\ pc # "verify"

Raised == {i \in Futures : fstate[i] = "err"}

\* C1: when a download future has raised, the rename is never executed and
\* the process never exits 0; it ends with status 1, also when the number
\* of downloads that returned equals the expected count.
C1_FailureIsFatal ==
    Raised # {} =>
        /\ ~Renaming
        /\ exitStatus # 0
        /\ Ended => exitStatus = 1

C1_Witness ==
    /\ pc = "exit"
    /\ Raised # {}
    /\ completed = expected
    /\ exitStatus = 1
    /\ exitMsg = [kind |-> "msg", text |-> "1"]

\* C2: when the listing holds no job, or only jobs without artifacts, main
\* never gets past the listing: no url is yielded, no download is
\* submitted, dist is not written, and the process ends with status 1.
NoArtifactListed == \A j \in 1..Len(api) : api[j] = <<>>

C2_EmptyListingIsFatal ==
    NoArtifactListed =>
        /\ pc \in {"rmtree", "list_project", "list_jobs", "exit"}
        /\ urls = <<>> /\ submitted = 0
        /\ pc # "rmtree" => dist \in {Absent, NotDir}
        /\ exitStatus # 0
        /\ Ended => exitStatus = 1

C2_Witness ==
    /\ pc = "exit"
    /\ Len(api) = 2 /\ NoArtifactListed
    /\ jobs = api
    /\ exitMsg = [kind |-> "msg", text |-> "no artifacts found"]
    /\ exitStatus = 1

\* C3: once the loop has ended with a count of returned downloads other
\* than len(PY_VERSIONS) * 4, fewer or more, the process has exited with
\* status 1, the message carries the expected and the actual count, and no
\* rename was made.
C3_CountMismatchIsFatal ==
    (Verified /\ completed # expected) =>
        /\ pc = "exit"
        /\ exitStatus = 1
        /\ exitMsg = [kind |-> "count", expected |-> Len(PY_VERSIONS) * 4,
                      got |-> completed]
        /\ renames = 0

C3_Witness ==
    /\ Verified
    /\ completed > expected
    /\ pc = "exit"
    /\ exitMsg.kind = "count"

ListedNames == {Basename(urls[i]) : i \in Futures}

AllReturned == urls # <<>> /\ \A i \in Futures : fstate[i] = "ok"

\* C4 as stated: with as many urls as expected and every download
\* returning, the run ends in DONE with exit status 0, dist holds as many
\* files as urls, and the 2.7 wheels that were listed carry their new names.
C4_Original ==
    (Ended /\ Len(urls) = expected /\ AllReturned) =>
        /\ pc = "done" /\ exitStatus = 0
        /\ Cardinality(dist.files) = Len(urls)
        /\ SRC32 \notin dist.files /\ SRC64 \notin dist.files
        /\ SRC32 \in ListedNames => DST32 \in dist.files
        /\ SRC64 \in ListedNames => DST64 \in dist.files

\* C4, amended: with as many urls as expected, their file names pairwise
\* distinct, both 2.7 wheels among them and neither new name among them,
\* and every download returning, the run ends in DONE with exit status 0
\* and dist holds exactly the listed names with the two wheels renamed.
C4_CompleteListingIsDone ==
    (/\ Ended /\ Len(urls) = expected /\ AllReturned
     /\ Cardinality(ListedNames) = Len(urls)
     /\ {SRC32, SRC64} \subseteq ListedNames
     /\ ListedNames \cap {DST32, DST64} = {}) =>
        /\ pc = "done" /\ exitStatus = 0
        /\ Cardinality(dist.files) = Len(urls)
        /\ dist.files = (ListedNames \ {SRC32, SRC64}) \cup {DST32, DST64}

C4_Witness ==
    /\ pc = "done" /\ exitStatus = 0
    /\ Len(urls) = expected /\ AllReturned
    /\ dist.files = {DST32, DST64, EXE32, EXE64}

SuccessNames == {Basename(urls[i]) : i \in {k \in consumed : fstate[k] = "ok"}}

\* The names a set of downloaded files has after the renames made so far.
AfterRenames(ns) ==
    LET r1 == IF renames >= 1 /\ SRC32 \in ns
              THEN (ns \ {SRC32}) \cup {DST32} ELSE ns
    IN  IF renames >= 2 /\ SRC64 \in r1
        THEN (r1 \ {SRC64}) \cup {DST64} ELSE r1

\* C5: dist is empty until the first download opens its file, and when the
\* run has ended after the downloads, dist holds exactly the files of the
\* downloads recorded as successes (under their names after the renames).
C5_DistHoldsTheSuccesses ==
    /\ (/\ pc # "rmtree" /\ dist.kind # "file"
        /\ \A i \in Futures : fstate[i] \in {"unsubmitted", "pending"})
           => dist.files = {}
    /\ (Ended /\ urls # <<>> /\ consumed = Futures)
           => dist.files = AfterRenames(SuccessNames)

\* A download that met an HTTP or I/O failure.
Failed(i) == fstate[i] = "err" \/ i \in httpErr

\* C6: a download that met a failed connection, an error response or a
\* failing open or write ends by raising, is printed as an error with its
\* own url, and is not counted in completed.
C6_FailuresAreRecorded ==
    /\ \A i \in Futures :
          Failed(i) =>
             /\ fstate[i] # "ok"
             /\ i \in consumed =>
                   /\ [kind |-> "error", url |-> urls[i]] \in printed
                   /\ [kind |-> "downloaded", url |-> urls[i]] \notin printed
    /\ completed = Cardinality({i \in consumed : ~Failed(i)})

\* C9: when the checks have passed and dist lacks a 2.7 wheel, the run
\* does not reach DONE and does not exit 0; it ends with status 1 on the
\* error of os.rename, and dist holds the listed names with only the renames
\* that were made: no other name is tried.
C9_MissingWheelIsFatal ==
    (/\ Verified /\ completed = expected /\ exc = None
     /\ ~({SRC32, SRC64} \subseteq ListedNames)) =>
        /\ pc # "done" /\ exitStatus # 0
        /\ SRC32 \notin ListedNames => renames = 0
        /\ renames <= 1
        /\ dist.files = AfterRenames(ListedNames)
        /\ pc = "exit" =>
              /\ exitStatus = 1
              /\ exitMsg = [kind |-> "oserror", op |-> "rename"]

C9_Witness ==
    /\ Verified /\ completed = expected /\ exc = None
    /\ SRC32 \in ListedNames /\ SRC64 \notin ListedNames
    /\ pc = "exit" /\ exitStatus = 1
    /\ renames = 1
    /\ DST32 \in dist.files

Submitted(i) == i \in Futures /\ fstate[i] # "unsubmitted"

Recorded(i) ==
    /\ i \in consumed
    /\ fstate[i] = "ok" => [kind |-> "downloaded", url |-> urls[i]] \in printed
    /\ fstate[i] = "err" => [kind |-> "error", url |-> urls[i]] \in printed

\* C7: once downloads are submitted, every one of them whose request
\* returns is run to its end and its outcome is recorded by the loop,
\* whatever failures were recorded before: nothing is cancelled or skipped.
\* (A download that never returns keeps the loop waiting; that case is the
\* escape hung # 0.)
C7_NoCancellation ==
    (submitted > 0) ~> (hung # 0 \/ \A i \in Futures : Recorded(i))

C7_Witness ==
    /\ pc = "exit"
    /\ hung = 0
    /\ Len(urls) >= 3
    /\ fstate[1] = "err"
    /\ \A i \in Futures : Recorded(i)
    /\ completed = Len(urls) - 1

\* C8: when one download hangs, every other listed download is still run
\* and handed to the loop, and its line is printed.
C8_HangDoesNotBlockOthers ==
    (hung # 0) ~> (\A i \in Futures \ {hung} : Recorded(i))

C8_Witness ==
    /\ hung = 1
    /\ fstate[hung] = "writing"
    /\ Len(urls) >= 3
    /\ \A i \in Futures \ {hung} :
          fstate[i] = "ok" /\ [kind |-> "downloaded", url |-> urls[i]] \in printed

\* C10: the phases come in the order INIT, LISTING, DOWNLOADING, VERIFYING,
\* RENAMING, DONE: during the listing dist is removed and nothing is
\* submitted; a download is submitted only once the urls of all jobs are
\* known; the checks are made only when every submitted download has ended
\* and been handed to the loop; a rename is made only when the checks passed.
Listing ==
    \/ pc \in {"list_project", "list_jobs"}
    \/ pc = "exit" /\ exitMsg \in {[kind |-> "neterror", op |-> "project"],
                                   [kind |-> "neterror", op |-> "artifacts"],
                                   [kind |-> "msg", text |-> "no artifacts found"]}

Checking ==
    \/ pc \in {"verify", "rename1", "rename2", "done"}
    \/ pc = "exit" /\ exitMsg \in {[kind |-> "count", expected |-> expected,
                                    got |-> completed],
                                   [kind |-> "msg", text |-> "1"],
                                   [kind |-> "oserror", op |-> "rename"]}

C10_PhaseOrder ==
    /\ pc = "rmtree" => jobs = <<>> /\ urls = <<>>
    /\ Listing => dist = Absent /\ urls = <<>> /\ submitted = 0
    /\ urls # <<>> => jobs = api /\ urls = GetFileUrls(api)
    /\ \A i \in Futures : Submitted(i) <=> i <= submitted
    /\ consumed # {} => submitted = Len(urls)
    /\ Checking =>
          /\ urls # <<>> /\ submitted = Len(urls)
          /\ consumed = Futures
          /\ \A i \in Futures : fstate[i] \in {"ok", "err"}
    /\ Renaming => Checking /\ completed = expected /\ exc = None
    /\ pc = "done" <=> renames = 2

C10_Witness ==
    /\ pc = "done"
    /\ renames = 2
    /\ consumed = Futures
    /\ jobs = api

\* ---------------------------------------------------------------------
\* The (job, artifact) pairs of the listing get_file_urls has fetched.
ListedPairs ==
    {jk \in (1..Len(jobs)) \X (1..Len(NameOrder)) : jk[2] <= Len(jobs[jk[1]])}

PairUrl(jk) == FileUrl(JobIds[jk[1]], <<jobs[jk[1]][jk[2]]>>)

\* Where a url stands in the order the jobs and their items were listed.
ListedAt(u) ==
    CHOOSE m \in 1..Len(CollectUrls(jobs, 1)) : CollectUrls(jobs, 1)[m] = u

\* C11: the urls get_file_urls yields are exactly the urls of the listed
\* (job, artifact) pairs, one per pair, none added and none dropped; they
\* are in non-decreasing order of their file name, and urls with the same
\* file name keep the order in which they were listed.
C11_UrlsSortedStable ==
    urls # <<>> =>
        /\ Len(urls) = Cardinality(ListedPairs)
        /\ \A jk \in ListedPairs :
              Cardinality({p \in Futures : urls[p] = PairUrl(jk)}) = 1
        /\ \A p \in Futures : \E jk \in ListedPairs : urls[p] = PairUrl(jk)
        /\ \A p, q \in Futures :
              p < q => /\ Rank(Basename(urls[p])) <= Rank(Basename(urls[q]))
                       /\ Basename(urls[p]) = Basename(urls[q])
                              => ListedAt(urls[p]) < ListedAt(urls[q])

\* Both jobs list all their files: the sort interleaves the two jobs and
\* meets the file name they share.
C11_Witness ==
    /\ Len(urls) = 6
    /\ urls # CollectUrls(jobs, 1)
    /\ \E p, q \in Futures :
          p < q /\ Basename(urls[p]) = Basename(urls[q]) /\ urls[p] # urls[q]

\* ---------------------------------------------------------------------
\* How far a future has come: not submitted, queued, being fetched, ended.
Stage(st) ==
    CASE st = "unsubmitted" -> 0
      [] st = "pending" -> 1
      [] st = "writing" -> 2
      [] st \in {"ok", "err"} -> 3

ErrorLines == {l \in printed : l.kind = "error"}

\* main is past the as_completed loop of lines 159-169.
LeftDownloading ==
    urls # <<>> /\ pc \in {"verify", "rename1", "rename2", "done", "exit"}

\* C12: nothing is retried.  A url is submitted once and fetched once: a
\* future only moves forward (queued, fetched, ended) and an ended future
\* keeps its outcome; an outcome handed to the loop is never handed out
\* again, and each one is recorded once, as a success or as a failure.  When
\* main is past the loop, the successes and the failures it recorded add up
\* to the number of listed urls.
C12_NoRetry ==
    /\ [](LeftDownloading =>
            /\ consumed = Futures
            /\ submitted = Len(urls)
            /\ \A i \in Futures : Stage(fstate[i]) = 3
            /\ completed + Cardinality(ErrorLines) = Len(urls))
    /\ [][/\ urls # <<>> => urls' = urls
          /\ submitted' \in {submitted, submitted + 1}
          /\ \A i \in Futures :
                /\ Stage(fstate'[i]) >= Stage(fstate[i])
                /\ Stage(fstate[i]) = 3 => fstate'[i] = fstate[i]
                /\ i \in consumed => i \in consumed'
          /\ Cardinality(consumed' \ consumed) <= 1
          /\ (completed' - completed)
                + (Cardinality(ErrorLines') - Cardinality(ErrorLines))
              = Cardinality(consumed' \ consumed)]_vars

\* Five urls, one of them failed: four successes and one failure recorded.
C12_Witness ==
    /\ LeftDownloading
    /\ Len(urls) = 5
    /\ completed = 4
    /\ Cardinality(ErrorLines) = 1

\* ---------------------------------------------------------------------
\* Two listed urls with one file name whose downloads both returned and
\* were both handed to the loop.
Collided(i, k) ==
    /\ i # k
    /\ Basename(urls[i]) = Basename(urls[k])
    /\ {i, k} \subseteq consumed
    /\ fstate[i] = "ok" /\ fstate[k] = "ok"

\* C13: two urls with the same file name are not told apart from any other
\* pair.  Both are printed as downloaded and both are counted in completed,
\* no error is recorded for either, and dist holds the name once: there are
\* fewer files than listed urls, and no message of the run is about it.
C13_CollisionGoesUnnoticed ==
    /\ completed = Cardinality({i \in consumed : fstate[i] = "ok"})
    /\ \A i, k \in Futures :
          Collided(i, k) =>
              /\ {[kind |-> "downloaded", url |-> urls[i]],
                  [kind |-> "downloaded", url |-> urls[k]]} \subseteq printed
              /\ \A l \in ErrorLines : l.url \notin {urls[i], urls[k]}
              /\ completed >= 2
              /\ renames = 0 =>
                    /\ Basename(urls[i]) \in dist.files
                    /\ Cardinality(dist.files) < Len(urls)
              /\ AllReturned /\ LeftDownloading /\ renames = 0 =>
                    /\ completed = Len(urls)
                    /\ Cardinality(dist.files) < completed
                    /\ exitMsg # None => exitMsg.kind \in {"count", "oserror"}

\* Four urls, two of them with one file name: the count check passes, the
\* wheels are renamed and the run ends with status 0 and three files.
C13_Witness ==
    /\ pc = "done"
    /\ exitStatus = 0
    /\ \E i, k \in Futures : Collided(i, k)
    /\ completed = 4
    /\ Cardinality(dist.files) = 3

Queued == {i \in Futures : fstate[i] = "pending"}

mainVars == <<pc, api, jobs, urls, submitted, fstate, httpErr, hung,
              consumed, completed, exc, printed, renames, exitStatus, exitMsg>>

\* NumCallers threads are about to call safe_makedirs('dist'), as the pool
\* threads do on line 109, with dist in any state.  Permission and disk
\* errors are left out: the parent directory is writable.
MkInit ==
    /\ pc = "safe_makedirs"
    /\ dist \in InitialDists
    /\ callers = [w \in 1..NumCallers |-> "call"]
    /\ api = <<>>
    /\ jobs = <<>>
    /\ urls = <<>>
    /\ submitted = 0
    /\ fstate = <<>>
    /\ httpErr = {}
    /\ hung = 0
    /\ consumed = {}
    /\ completed = 0
    /\ exc = None
    /\ printed = {}
    /\ renames = 0
    /\ exitStatus = Running
    /\ exitMsg = None
    /\ nbytes = <<>>
    /\ human = None

\* safe_makedirs, lines 69-71: os.makedirs(path).  'dist' has no parent to
\* make, so this is one mkdir call: it makes the directory, or fails with
\* EEXIST when the path exists, whatever it is.
OsMakedirs(w) ==
    /\ callers[w] = "call"
    /\ IF dist.kind = "absent"
       THEN /\ dist' = Dir({})
            /\ callers' = [callers EXCEPT ![w] = "created"]
       ELSE /\ callers' = [callers EXCEPT ![w] = "eexist"]
            /\ UNCHANGED dist
    /\ UNCHANGED <<mainVars, nbytes, human>>

OnEexist_Reraise(w) ==
    /\ callers[w] = "eexist"
    /\ callers' = [callers EXCEPT ![w] = "raised"]
    /\ UNCHANGED <<mainVars, dist, nbytes, human>>

\* safe_makedirs, lines 72-74: on EEXIST, "if not os.path.isdir(path): raise".
OnEexist(w) ==
    /\ callers[w] = "eexist"
    /\ callers' = [callers EXCEPT ![w] =
                      IF dist.kind = "dir" THEN "tolerated" ELSE "raised"]
    /\ UNCHANGED <<mainVars, dist, nbytes, human>>

MkNext ==
    \/ \E w \in DOMAIN callers : OsMakedirs(w)
    \/ \E w \in DOMAIN callers : OnEexist(w)

MkSpec == MkInit /\ [][MkNext]_vars

Returned(w) == callers[w] \in {"created", "tolerated"}

\* C15: safe_makedirs called on an existing directory returns and leaves
\* the directory as it is; called on a path that is not a directory it
\* raises; and however the calls of concurrent threads interleave, none of
\* them raises unless the path is a non-directory: one call makes the
\* directory, the others meet EEXIST and find a directory.  Each call ends
\* as one uninterrupted call on the final dist would.
C15_MakedirsIsRaceFree ==
    /\ Cardinality({w \in DOMAIN callers : callers[w] = "created"}) <= 1
    /\ (\A w \in DOMAIN callers : callers[w] # "created") =>
           dist \in InitialDists
    /\ \A w \in DOMAIN callers :
          /\ callers[w] = "created" => dist = Dir({})
          /\ Returned(w) => /\ dist.kind = "dir"
                            /\ SafeMakedirs(dist) = [raised |-> FALSE, dist |-> dist]
          /\ callers[w] = "raised" => dist = NotDir /\ SafeMakedirs(dist).raised
          /\ dist = NotDir => ~Returned(w)

\* dist was absent: one thread made it, the others lost the race, met
\* EEXIST and returned as well.
C15_Witness ==
    /\ Cardinality({w \in DOMAIN callers : callers[w] = "created"}) = 1
    /\ Cardinality({w \in DOMAIN callers : callers[w] = "tolerated"}) >= 2
    /\ \A w \in DOMAIN callers : Returned(w)

\* ---------------------------------------------------------------------
\* C16: safe_rmtree on a path that does not exist returns and changes
\* nothing; on a directory it removes the directory with all it holds; an
\* error other than "does not exist" (the path is not a directory) is
\* raised to the caller, here main, which it ends with status 1, the path
\* left as it was.
C16_RmtreeAbsorbsOnlyMissing ==
    [][pc = "rmtree" =>
          /\ dist.kind = "absent" =>
                dist' = dist /\ pc' = "list_project" /\ exitStatus' = Running
          /\ dist.kind = "dir" =>
                dist' = Absent /\ pc' = "list_project" /\ exitStatus' = Running
          /\ dist.kind = "file" =>
                /\ dist' = dist
                /\ pc' = "exit"
                /\ exitStatus' = 1
                /\ exitMsg' = [kind |-> "oserror", op |-> "rmtree"]]_vars

\* dist is a regular file: rmtree's error reached main and ended the run
\* before anything was listed.
C16_Witness ==
    /\ pc = "exit"
    /\ exitMsg = [kind |-> "oserror", op |-> "rmtree"]
    /\ dist = NotDir
    /\ jobs = <<>>

\* ---------------------------------------------------- bytes2human, alone
\* A byte count is a Python integer of any size.  It is held as its digits
\* in base 1024, lowest first, no leading zero; <<>> is 0.
ShiftBits == 10

Radix == 2 ^ ShiftBits

\* bytes2human, line 95.
Symbols == <<"K", "M", "G", "T", "P", "E", "Z", "Y">>

\* bytes2human, line 98: prefix[symbols[i]] = 1 << (i + 1) * 10, here for
\* i = 1..8: the digit 1 above i zeros.
Prefix(i) == [k \in 1..(i + 1) |-> IF k = i + 1 THEN 1 ELSE 0]

\* a >= b on digit sequences.
GreaterEq(a, b) ==
    IF Len(a) # Len(b) THEN Len(a) > Len(b)
    ELSE ~\E k \in 1..Len(a) :
             a[k] < b[k] /\ \A m \in (k + 1)..Len(a) : a[m] = b[m]

\* A loop over symbols from K upwards: the first unit that fits.
Unit_NotReversed(n) ==
    IF \E i \in 1..Len(Symbols) : GreaterEq(n, Prefix(i))
    THEN CHOOSE i \in 1..Len(Symbols) :
             /\ GreaterEq(n, Prefix(i))
             /\ \A j \in 1..(i - 1) : ~GreaterEq(n, Prefix(j))
    ELSE 0

\* bytes2human, lines 99-100: the first symbol, from Y down, with
\* n >= prefix[s]; 0 when the loop ends without one.
Unit(n) ==
    IF \E i \in 1..Len(Symbols) : GreaterEq(n, Prefix(i))
    THEN CHOOSE i \in 1..Len(Symbols) :
             /\ GreaterEq(n, Prefix(i))
             /\ \A j \in (i + 1)..Len(Symbols) : ~GreaterEq(n, Prefix(j))
    ELSE 0

Digit(n, k) == IF k \in 1..Len(n) THEN n[k] ELSE 0

\* float(n) / prefix[s], line 101, in three parts: the whole part, the
\* fraction in 1024 * 1024-ths, and whether anything lies below that.
Quotient(n, i) ==
    [whole |-> Digit(n, i + 1) + Digit(n, i + 2) * Radix
                   + Digit(n, i + 3) * Radix * Radix,
     frac  |-> Digit(n, i) * Radix + Digit(n, i - 1),
     more  |-> \E k \in 1..(i - 2) : Digit(n, k) # 0]

\* '%.2f' % value: the nearest number of hundredths, a tie going to the
\* even one; 100 hundredths carry into the whole part.
TwoDecimals(q) ==
    LET x     == q.frac * 100
        den   == Radix * Radix
        cents == x \div den
        rest  == x % den
        up    == \/ 2 * rest > den
                 \/ 2 * rest = den /\ (q.more \/ cents % 2 = 1)
        c     == IF up THEN cents + 1 ELSE cents
    IN  IF c = 100 THEN [whole |-> q.whole + 1, cents |-> 0]
        ELSE [whole |-> q.whole, cents |-> c]

\* bytes2human, lines 99-103: what the returned string shows, "whole.cents
\* symbol".
Bytes2human(n) ==
    LET i == Unit(n)
    IN  IF i = 0
        THEN [whole |-> Digit(n, 1), cents |-> 0, symbol |-> "B"]
        ELSE LET r == TwoDecimals(Quotient(n, i))
             IN  [whole |-> r.whole, cents |-> r.cents, symbol |-> Symbols[i]]

\* The byte counts tried: 0, and for every length up to MaxDigits the
\* counts whose three highest digits are chosen below and whose lower
\* digits are 0.  float(n) is exact for them.
TopDigits == {1, 9, Radix - 1}
NextDigits == {0, 128, 384, 784, Radix - 1}
ThirdDigits == {0, Radix - 1}

Sizes ==
    {<<>>} \cup
    {[k \in 1..len |-> IF k = len THEN t
                       ELSE IF k = len - 1 THEN d2
                       ELSE IF k = len - 2 THEN d3 ELSE 0] :
        len \in 1..MaxDigits, t \in TopDigits, d2 \in NextDigits,
        d3 \in ThirdDigits}

HumanInit ==
    /\ pc = "bytes2human"
    /\ nbytes \in Sizes
    /\ human = None
    /\ callers = <<>>
    /\ dist = Absent
    /\ api = <<>>
    /\ jobs = <<>>
    /\ urls = <<>>
    /\ submitted = 0
    /\ fstate = <<>>
    /\ httpErr = {}
    /\ hung = 0
    /\ consumed = {}
    /\ completed = 0
    /\ exc = None
    /\ printed = {}
    /\ renames = 0
    /\ exitStatus = Running
    /\ exitMsg = None

\* One call bytes2human(nbytes), as on line 169.
Bytes2humanCall ==
    /\ pc = "bytes2human"
    /\ human = None
    /\ human' = Bytes2human(nbytes)
    /\ UNCHANGED <<mainVars, dist, callers, nbytes>>

HumanNext == Bytes2humanCall

HumanSpec == HumanInit /\ [][HumanNext]_vars

\* The largest unit, 1 for K to 8 for Y, whose size 1024 ^ i is at most the
\* count: a count of at least 1024 ^ i has more than i digits.
LargestUnit(n) == Min(Len(n) - 1, Len(Symbols))

\* The unit is chosen as the claim says.
UnitAsClaimed ==
    /\ Len(nbytes) <= 1 <=> human.symbol = "B"
    /\ Len(nbytes) > 1 => human.symbol = Symbols[LargestUnit(nbytes)]

====
